---- MODULE Spec2Model ----
(***************************************************************************)
(* Model of WorkflowParser.parse and parseWorkflow                         *)
(* (src/node_modules/@cerber-ci/core/src/ast/WorkflowParser.ts).           *)
(*                                                                         *)
(* The decoded YAML document is a tree of JavaScript values.  A value is  *)
(* a record whose field t is its JavaScript kind ("undefined", "null",    *)
(* "boolean", "number", "string", "array", "object") and whose field v is *)
(* the text of a scalar.  "undefined" is what reading an absent key       *)
(* gives.  One call of parse is followed statement by statement: pc is    *)
(* the position inside the call, errors the list the call passes along.   *)
(***************************************************************************)
EXTENDS Naturals, Sequences, FiniteSets, TLC

\* ------------------------------------------------------------------ bounds
\* Most events of a mapping- or sequence-form `on`.
MaxEvents == 2
\* Most entries of `jobs`.
MaxJobs == 2
\* Most elements of one job's `steps` sequence.
MaxSteps == 2

\* ------------------------------------------------------- JavaScript values
Scalar(t, v) == [t |-> t, v |-> v]
Undefined == Scalar("undefined", "")
Null == Scalar("null", "")
JSFalse == Scalar("boolean", "false")
JSTrue == Scalar("boolean", "true")
Zero == Scalar("number", "0")
One == Scalar("number", "1")
Str(s) == Scalar("string", s)

\* The scalars a decoded document offers at a key, "undefined" (key absent)
\* included: both falsy and truthy values of every scalar kind.
Scalars == {Undefined, Null, JSFalse, JSTrue, Zero, One, Str(""), Str("x")}

\* JavaScript's ToBoolean: undefined, null, false, 0 and "" are falsy; every
\* array and every object is truthy.
Truthy(x) ==
    ~ \/ x.t \in {"undefined", "null"}
      \/ x.t = "boolean" /\ x.v = "false"
      \/ x.t = "number" /\ x.v = "0"
      \/ x.t = "string" /\ x.v = ""

\* JavaScript's typeof: null and arrays are "object".
TypeOf(x) ==
    IF x.t \in {"null", "array", "object"} THEN "object" ELSE x.t

IsArray(x) == x.t = "array"

\* Reading a property of null or undefined throws a TypeError.
Nullish(x) == x.t \in {"undefined", "null"}

\* ------------------------------------------------------------- sequences
SeqsUpTo(S, n) == UNION {[1..k -> S] : k \in 0..n}

Distinct(s) == \A a, b \in 1..Len(s) : a # b => s[a] # s[b]

IndexOf(s, x) == CHOOSE a \in 1..Len(s) : s[a] = x

RECURSIVE SelectIdx(_, _, _)
\* The indices a of 1..n, ascending from a = k, at which P[a] holds.
SelectIdx(P, k, n) ==
    IF k > n THEN <<>>
    ELSE (IF P[k] THEN <<k>> ELSE <<>>) \o SelectIdx(P, k + 1, n)

\* ------------------------------------------------- the decoded document
\* A filter field of an event's configuration (branches, tags, paths).
FilterAbsent == [t |-> "undefined", v |-> "", items |-> <<>>]
FilterStr(s) == [t |-> "string", v |-> s, items |-> <<>>]
FilterArr(xs) == [t |-> "array", v |-> "", items |-> xs]

\* The value of one event key of a mapping-form `on`.
EventNull ==
    [t |-> "null", v |-> "", branches |-> FilterAbsent, tags |-> FilterAbsent,
     paths |-> FilterAbsent]
EventMap(b, g, p) ==
    [t |-> "object", v |-> "", branches |-> b, tags |-> g, paths |-> p]

\* The value of `on`: a scalar, a sequence of event names (keys), or a
\* mapping from event names (keys, in iteration order) to configurations.
OnScalar(s) == [t |-> s.t, v |-> s.v, keys |-> <<>>, cfgs |-> <<>>]
OnArr(names) == [t |-> "array", v |-> "", keys |-> names, cfgs |-> <<>>]
OnMap(names, cfgs) == [t |-> "object", v |-> "", keys |-> names, cfgs |-> cfgs]

\* One element of a `steps` sequence.
StepScalar(s) == [t |-> s.t, v |-> s.v, uses |-> Undefined, run |-> Undefined]
StepMap(u, r) == [t |-> "object", v |-> "", uses |-> u, run |-> r]

\* The value of a job's `steps`.
StepsScalar(s) == [t |-> s.t, v |-> s.v, items |-> <<>>]
StepsMap == [t |-> "object", v |-> "", items |-> <<>>]
StepsArr(xs) == [t |-> "array", v |-> "", items |-> xs]

\* The value of one entry of `jobs`.
JobScalar(s) ==
    [t |-> s.t, v |-> s.v, runsOn |-> Undefined, steps |-> StepsScalar(Undefined)]
JobMap(r, st) == [t |-> "object", v |-> "", runsOn |-> r, steps |-> st]

\* The value of `jobs`: a scalar, a sequence (whose keys are its indices
\* "0", "1", ...) or a mapping, keys in Object.entries order.
JobsScalar(s) == [t |-> s.t, v |-> s.v, keys |-> <<>>, cfgs |-> <<>>]
JobsArr(cfgs) ==
    [t |-> "array", v |-> "", keys |-> [a \in 1..Len(cfgs) |-> ToString(a - 1)],
     cfgs |-> cfgs]
JobsMap(ids, cfgs) == [t |-> "object", v |-> "", keys |-> ids, cfgs |-> cfgs]

\* What yaml.load gives: top.t = "fail" stands for a text the decoder
\* rejects (it throws), otherwise top is the kind of the decoded value and
\* on, jobs are what reading these keys of it gives.
Doc(top, on, jobs) == [top |-> top, on |-> on, jobs |-> jobs]
DecodeFailure == Scalar("fail", "bad indentation of a mapping entry")
TopArray == Scalar("array", "")
TopMap == Scalar("object", "")

\* ------------------------------------------------------ bounded inputs
EventNames == {"push", "pull_request", "release"}
JobIds == {"build", "test", "__proto__"}

EventCfgs ==
    {EventNull, EventMap(FilterStr(""), FilterAbsent, FilterAbsent)}
    \cup {EventMap(b, g, p) :
            b \in {FilterAbsent, FilterStr("main"), FilterArr(<<"dev">>)},
            g \in {FilterAbsent, FilterStr("v1")},
            p \in {FilterAbsent, FilterArr(<<"src">>)}}

OnValues ==
    {OnScalar(s) : s \in Scalars}
    \cup {OnArr(ns) : ns \in {s \in SeqsUpTo(EventNames, MaxEvents) : Distinct(s)}}
    \cup UNION {{OnMap(ns, cs) : cs \in [1..Len(ns) -> EventCfgs]} :
                  ns \in {s \in SeqsUpTo(EventNames, MaxEvents) : Distinct(s)}}

StepCfgs ==
    {StepScalar(Null), StepScalar(Str("x")),
     StepMap(Undefined, Undefined), StepMap(Undefined, Str("echo")),
     StepMap(Str("actions/checkout"), Undefined),
     StepMap(Str("actions/checkout"), Str("echo")),
     StepMap(Undefined, Str(""))}

StepsValues ==
    {StepsScalar(s) : s \in Scalars} \cup {StepsMap}
    \cup {StepsArr(xs) : xs \in SeqsUpTo(StepCfgs, MaxSteps)}

ValidJob ==
    JobMap(Str("ubuntu-latest"), StepsArr(<<StepMap(Undefined, Str("echo"))>>))

\* Jobs varied in their steps: one job, every runner and every `steps`.
JobCfgsDeep ==
    {JobMap(r, st) :
        r \in {Undefined, Str(""), Str("ubuntu-latest")}, st \in StepsValues}

\* Jobs varied in number and keys: a few configurations each.
JobCfgsWide ==
    {JobScalar(Null), JobScalar(Str("x")),
     JobMap(Undefined, StepsScalar(Undefined)), ValidJob,
     JobMap(Undefined,
            StepsArr(<<StepMap(Undefined, Undefined),
                       StepMap(Undefined, Str(""))>>)),
     JobMap(Str("ubuntu-latest"), StepsScalar(Str("x")))}

JobsWide ==
    {JobsScalar(s) : s \in Scalars}
    \cup {JobsArr(cs) : cs \in SeqsUpTo(JobCfgsWide, MaxJobs)}
    \cup UNION {{JobsMap(ids, cs) : cs \in [1..Len(ids) -> JobCfgsWide]} :
                  ids \in {s \in SeqsUpTo(JobIds, MaxJobs) : Distinct(s)}}

\* The documents checked: every top-level kind; every `on` over a valid
\* job; few `on` over `jobs` varied in number and keys, and over one job
\* varied in its steps.
Docs ==
    {Doc(top, OnScalar(Undefined), JobsScalar(Undefined)) :
        top \in {DecodeFailure, TopArray} \cup Scalars}
    \cup {Doc(TopMap, on, JobsMap(<<"build">>, <<ValidJob>>)) : on \in OnValues}
    \cup {Doc(TopMap, OnScalar(s), jobs) :
            s \in {Undefined, Null, Str("push")}, jobs \in JobsWide}
    \cup {Doc(TopMap, OnScalar(s), JobsMap(<<"build">>, <<c>>)) :
            s \in {Undefined, Str("push")}, c \in JobCfgsDeep}

\* ------------------------------------------------------- the typed AST
\* An optional list of a TriggerAST (branches, tags, paths): undefined
\* (def = FALSE) or a list.
NoList == [def |-> FALSE, items |-> <<>>]
SomeList(xs) == [def |-> TRUE, items |-> xs]

TriggerAST(ev, b, g, p) == [events |-> ev, branches |-> b, tags |-> g, paths |-> p]
EmptyTrigger == TriggerAST(<<>>, NoList, NoList, NoList)

StepAST(u, r) == [uses |-> u, run |-> r]
JobAST(id, r, st) == [id |-> id, runsOn |-> r, steps |-> st]

\* A JavaScript object used as a dictionary: its own keys in enumeration
\* order, and their values.
EmptyObj == [keys |-> <<>>, vals |-> <<>>]

\* ast.isNull stands for the null of ParseResult.ast.
NullAst == [isNull |-> TRUE, on |-> EmptyTrigger, jobs |-> EmptyObj]
WorkflowAST(tr, js) == [isNull |-> FALSE, on |-> tr, jobs |-> js]

ParseError(m) == [message |-> m, severity |-> "error"]
ParseResult(ast, errs) == [ast |-> ast, errors |-> errs]

\* ------------------------------------------------------------ messages
MsgInvalidYaml == "Invalid YAML: expected object"
MsgParseError(m) == "YAML parse error: " \o m
MsgMissingOn == "Missing required field 'on' (trigger configuration)"
MsgMissingJobs == "Missing or invalid 'jobs' field"
MsgRunsOn(jobId) == "Job '" \o jobId \o "': missing required field 'runs-on'"
MsgStepsArray(jobId) == "Job '" \o jobId \o "': 'steps' must be an array"
MsgStep(jobId, stepIndex) ==
    "Job '" \o jobId \o "', step " \o ToString(stepIndex)
        \o ": must have either 'uses' or 'run'"

\* The TypeError messages of the JavaScript engine.
TypeErrorKeys == "Cannot convert undefined or null to object"
TypeErrorRead(prop) == "Cannot read properties of null (reading '" \o prop \o "')"

\* errors.push(...)
Push(errs, m) == Append(errs, ParseError(m))

\* ---------------------------------------------------- object assignment
\* The keys that are array indices: an object enumerates them first, in
\* ascending numeric order, and its other string keys after them in
\* insertion order.
IndexKeys == {ToString(n) : n \in 0..9}
NumOf(k) == CHOOSE n \in 0..9 : ToString(n) = k

InsertAt(s, a, x) == SubSeq(s, 1, a - 1) \o <<x>> \o SubSeq(s, a, Len(s))

\* obj[k] = val on a plain object: assigning to "__proto__" sets the
\* object's prototype and adds no own key.
ObjSet(obj, k, val) ==
    IF k = "__proto__" THEN obj
    ELSE IF \E a \in 1..Len(obj.keys) : obj.keys[a] = k
    THEN [obj EXCEPT !.vals[IndexOf(obj.keys, k)] = val]
    ELSE IF k \in IndexKeys
    THEN LET at == 1 + Cardinality({a \in 1..Len(obj.keys) :
                        obj.keys[a] \in IndexKeys /\ NumOf(obj.keys[a]) < NumOf(k)})
         IN  [keys |-> InsertAt(obj.keys, at, k), vals |-> InsertAt(obj.vals, at, val)]
    ELSE [keys |-> Append(obj.keys, k), vals |-> Append(obj.vals, val)]

\* ------------------------------------------------------------ parseStep
\* The result of a call that may throw: threw, the exception's message,
\* the errors list as the call left it, and what it returns.
\* parseStep with the check written `if (!stepConfig.uses)`.
parseStepNeedsUses(stepConfig, jobId, stepIndex, errs) ==
    IF Nullish(stepConfig)
    THEN [threw |-> TRUE, msg |-> TypeErrorRead("uses"), errors |-> errs,
          step |-> StepAST(Undefined, Undefined)]
    ELSE [threw |-> FALSE, msg |-> "",
          errors |-> IF ~Truthy(stepConfig.uses)
                     THEN Push(errs, MsgStep(jobId, stepIndex))
                     ELSE errs,
          step |-> StepAST(stepConfig.uses, stepConfig.run)]

parseStep(stepConfig, jobId, stepIndex, errs) ==
    IF Nullish(stepConfig)
    THEN [threw |-> TRUE, msg |-> TypeErrorRead("uses"), errors |-> errs,
          step |-> StepAST(Undefined, Undefined)]
    ELSE [threw |-> FALSE, msg |-> "",
          errors |-> IF ~Truthy(stepConfig.uses) /\ ~Truthy(stepConfig.run)
                     THEN Push(errs, MsgStep(jobId, stepIndex))
                     ELSE errs,
          step |-> StepAST(stepConfig.uses, stepConfig.run)]

RECURSIVE StepsLoop(_, _, _, _, _)
\* for (let i = 0; i < jobConfig.steps.length; i++) steps.push(parseStep(...))
StepsLoop(items, jobId, i, errs, steps) ==
    IF i >= Len(items)
    THEN [threw |-> FALSE, msg |-> "", errors |-> errs, steps |-> steps]
    ELSE LET r == parseStep(items[i + 1], jobId, i, errs)
         IN  IF r.threw
             THEN [threw |-> TRUE, msg |-> r.msg, errors |-> r.errors, steps |-> steps]
             ELSE StepsLoop(items, jobId, i + 1, r.errors, Append(steps, r.step))

\* ------------------------------------------------------------- parseJob
\* parseJob with the `runs-on` check moved after the steps.
parseJobRunsOnLast(jobId, jobConfig, errs) ==
    IF Nullish(jobConfig)
    THEN [threw |-> TRUE, msg |-> TypeErrorRead("runs-on"), errors |-> errs,
          job |-> JobAST(jobId, Undefined, <<>>)]
    ELSE LET r  == IF IsArray(jobConfig.steps)
                   THEN StepsLoop(jobConfig.steps.items, jobId, 0, errs, <<>>)
                   ELSE [threw |-> FALSE, msg |-> "",
                         errors |-> IF Truthy(jobConfig.steps)
                                    THEN Push(errs, MsgStepsArray(jobId)) ELSE errs,
                         steps |-> <<>>]
         IN  [threw |-> r.threw, msg |-> r.msg,
              errors |-> IF ~r.threw /\ ~Truthy(jobConfig.runsOn)
                         THEN Push(r.errors, MsgRunsOn(jobId)) ELSE r.errors,
              job |-> JobAST(jobId, jobConfig.runsOn, r.steps)]

parseJob(jobId, jobConfig, errs) ==
    IF Nullish(jobConfig)
    THEN [threw |-> TRUE, msg |-> TypeErrorRead("runs-on"), errors |-> errs,
          job |-> JobAST(jobId, Undefined, <<>>)]
    ELSE LET e1 == IF ~Truthy(jobConfig.runsOn)
                   THEN Push(errs, MsgRunsOn(jobId)) ELSE errs
             r  == IF IsArray(jobConfig.steps)
                   THEN StepsLoop(jobConfig.steps.items, jobId, 0, e1, <<>>)
                   ELSE [threw |-> FALSE, msg |-> "",
                         errors |-> IF Truthy(jobConfig.steps)
                                    THEN Push(e1, MsgStepsArray(jobId)) ELSE e1,
                         steps |-> <<>>]
         IN  [threw |-> r.threw, msg |-> r.msg, errors |-> r.errors,
              job |-> JobAST(jobId, jobConfig.runsOn, r.steps)]

\* --------------------------------------------------------- parseTrigger
\* Array.isArray(x) ? x : [x]
Coerce(f) == IF IsArray(f) THEN f.items ELSE <<f.v>>

\* if (eventConfig.<field>) <field> = ...: the field is overwritten only
\* when this event gives it a truthy value.
Overwrite(old, f) == IF Truthy(f) THEN SomeList(Coerce(f)) ELSE old

RECURSIVE ExtractFiltersWholeEvent(_, _, _)
\* The loop with every event that carries a filter replacing all three.
ExtractFiltersWholeEvent(cfgs, k, acc) ==
    IF k > Len(cfgs) THEN acc
    ELSE LET c == cfgs[k]
         IN  ExtractFiltersWholeEvent(cfgs, k + 1,
                 IF /\ Truthy(c) /\ TypeOf(c) = "object"
                    /\ (Truthy(c.branches) \/ Truthy(c.tags) \/ Truthy(c.paths))
                 THEN [branches |-> Overwrite(NoList, c.branches),
                       tags |-> Overwrite(NoList, c.tags),
                       paths |-> Overwrite(NoList, c.paths)]
                 ELSE acc)

RECURSIVE ExtractFilters(_, _, _)
\* for (const event of events) { ... }, from event k on, acc the filters so far.
ExtractFilters(cfgs, k, acc) ==
    IF k > Len(cfgs) THEN acc
    ELSE LET c == cfgs[k]
         IN  ExtractFilters(cfgs, k + 1,
                 IF Truthy(c) /\ TypeOf(c) = "object"
                 THEN [branches |-> Overwrite(acc.branches, c.branches),
                       tags |-> Overwrite(acc.tags, c.tags),
                       paths |-> Overwrite(acc.paths, c.paths)]
                 ELSE acc)

parseTrigger(onConfig) ==
    IF TypeOf(onConfig) = "string"
    THEN [threw |-> FALSE, msg |-> "",
          trigger |-> TriggerAST(<<onConfig.v>>, NoList, NoList, NoList)]
    ELSE IF IsArray(onConfig)
    THEN [threw |-> FALSE, msg |-> "",
          trigger |-> TriggerAST(onConfig.keys, NoList, NoList, NoList)]
    ELSE IF TypeOf(onConfig) = "object"
    THEN IF Nullish(onConfig)
         THEN [threw |-> TRUE, msg |-> TypeErrorKeys, trigger |-> EmptyTrigger]
         ELSE LET f == ExtractFilters(onConfig.cfgs, 1,
                           [branches |-> NoList, tags |-> NoList, paths |-> NoList])
              IN  [threw |-> FALSE, msg |-> "",
                   trigger |-> TriggerAST(onConfig.keys, f.branches, f.tags, f.paths)]
    ELSE [threw |-> FALSE, msg |-> "", trigger |-> EmptyTrigger]

\* -------------------------------------------------------- parseWorkflow
RECURSIVE JoinLines(_)
\* messages.join('\n')
JoinLines(ms) ==
    IF Len(ms) = 0 THEN ""
    ELSE IF Len(ms) = 1 THEN ms[1]
    ELSE ms[1] \o "\n" \o JoinLines(Tail(ms))

Messages(errs) == [a \in 1..Len(errs) |-> errs[a].message]

\* result.errors.filter(e => e.severity === 'error')
CriticalErrors(errs) == SelectSeq(errs, LAMBDA e : e.severity = "error")

\* parseWorkflow without its second check.
parseWorkflowNoCriticalCheck(res) ==
    IF res.ast.isNull
    THEN [thrown |-> TRUE,
          message |-> "Failed to parse workflow:\n" \o JoinLines(Messages(res.errors)),
          ast |-> NullAst]
    ELSE [thrown |-> FALSE, message |-> "", ast |-> res.ast]

\* What a call of parseWorkflow ends with, given what parse returned: a
\* thrown Error with its message, or the AST returned.
parseWorkflow(res) ==
    IF res.ast.isNull
    THEN [thrown |-> TRUE,
          message |-> "Failed to parse workflow:\n" \o JoinLines(Messages(res.errors)),
          ast |-> NullAst]
    ELSE IF Len(res.errors) > 0 /\ Len(CriticalErrors(res.errors)) > 0
    THEN [thrown |-> TRUE,
          message |-> "Workflow has critical errors:\n"
                          \o JoinLines(Messages(CriticalErrors(res.errors))),
          ast |-> NullAst]
    ELSE [thrown |-> FALSE, message |-> "", ast |-> res.ast]

\* ---------------------------------------------------------------- state
VARIABLES
    doc,      \* what yaml.load makes of yamlContent
    pc,       \* the position inside the call
    errors,   \* parse's errors list, passed along to every sub-parser
    trigger,  \* buildWorkflowAST's trigger
    jobs,     \* buildWorkflowAST's jobs
    jobIdx,   \* the entry of Object.entries(raw.jobs) the loop is at (from 1)
    exc,      \* the message of the exception in flight
    result,   \* what parse returned
    outcome   \* what parseWorkflow ended with

vars == <<doc, pc, errors, trigger, jobs, jobIdx, exc, result, outcome>>

NoResult == ParseResult(NullAst, <<>>)
NoOutcome == [thrown |-> FALSE, message |-> "", ast |-> NullAst]

Init ==
    /\ doc \in Docs
    /\ pc = "start"
    /\ errors = <<>>
    /\ trigger = EmptyTrigger
    /\ jobs = EmptyObj
    /\ jobIdx = 1
    /\ exc = ""
    /\ result = NoResult
    /\ outcome = NoOutcome

\* const rawYaml = yaml.load(yamlContent): the decoder throws on a text it
\* rejects.
Load ==
    /\ pc = "start"
    /\ IF doc.top.t = "fail"
       THEN pc' = "catch" /\ exc' = doc.top.v
       ELSE pc' = "loaded" /\ exc' = exc
    /\ UNCHANGED <<doc, errors, trigger, jobs, jobIdx, result, outcome>>

\* if (!rawYaml || typeof rawYaml !== 'object') return {ast: null, ...}
CheckObject ==
    /\ pc = "loaded"
    /\ IF ~Truthy(doc.top) \/ TypeOf(doc.top) # "object"
       THEN /\ result' = ParseResult(NullAst, <<ParseError(MsgInvalidYaml)>>)
            /\ pc' = "returned"
       ELSE /\ result' = result
            /\ pc' = "checkOn"
    /\ UNCHANGED <<doc, errors, trigger, jobs, jobIdx, exc, outcome>>

\* if (!raw.on) errors.push(...)
CheckOn ==
    /\ pc = "checkOn"
    /\ errors' = IF ~Truthy(doc.on) THEN Push(errors, MsgMissingOn) ELSE errors
    /\ pc' = "checkJobs"
    /\ UNCHANGED <<doc, trigger, jobs, jobIdx, exc, result, outcome>>

\* raw.jobs && typeof raw.jobs === 'object'
JobsIterable(d) == Truthy(d.jobs) /\ TypeOf(d.jobs) = "object"

\* if (!raw.jobs || typeof raw.jobs !== 'object') errors.push(...)
CheckJobs ==
    /\ pc = "checkJobs"
    /\ errors' = IF ~JobsIterable(doc) THEN Push(errors, MsgMissingJobs) ELSE errors
    /\ pc' = "trigger"
    /\ UNCHANGED <<doc, trigger, jobs, jobIdx, exc, result, outcome>>

\* const trigger = this.parseTrigger(raw.on, errors)
CallParseTrigger ==
    /\ pc = "trigger"
    /\ LET r == parseTrigger(doc.on)
       IN  IF r.threw
           THEN pc' = "catch" /\ exc' = r.msg /\ trigger' = trigger
           ELSE pc' = "jobs" /\ exc' = exc /\ trigger' = r.trigger
    /\ UNCHANGED <<doc, errors, jobs, jobIdx, result, outcome>>

\* jobs[jobId] = this.parseJob(jobId, jobConfig, errors), for the next entry
CallParseJob ==
    /\ pc = "jobs"
    /\ JobsIterable(doc)
    /\ jobIdx <= Len(doc.jobs.keys)
    /\ LET jobId == doc.jobs.keys[jobIdx]
           r == parseJob(jobId, doc.jobs.cfgs[jobIdx], errors)
       IN  /\ errors' = r.errors
           /\ IF r.threw
              THEN pc' = "catch" /\ exc' = r.msg /\ jobs' = jobs /\ jobIdx' = jobIdx
              ELSE /\ pc' = "jobs" /\ exc' = exc
                   /\ jobs' = ObjSet(jobs, jobId, r.job)
                   /\ jobIdx' = jobIdx + 1
    /\ UNCHANGED <<doc, trigger, result, outcome>>

\* return {type: 'workflow', on: trigger, jobs, ...}; return {ast, errors}
BuildReturn ==
    /\ pc = "jobs"
    /\ ~(JobsIterable(doc) /\ jobIdx <= Len(doc.jobs.keys))
    /\ result' = ParseResult(WorkflowAST(trigger, jobs), errors)
    /\ pc' = "returned"
    /\ UNCHANGED <<doc, errors, trigger, jobs, jobIdx, exc, outcome>>

\* catch (error) { return {ast: null, errors: [{message: `YAML parse error: ...`}]} }
Catch ==
    /\ pc = "catch"
    /\ result' = ParseResult(NullAst, <<ParseError(MsgParseError(exc))>>)
    /\ pc' = "returned"
    /\ UNCHANGED <<doc, errors, trigger, jobs, jobIdx, exc, outcome>>

\* parseWorkflow, after its call of parser.parse returned
ParseWorkflow ==
    /\ pc = "returned"
    /\ outcome' = parseWorkflow(result)
    /\ pc' = "done"
    /\ UNCHANGED <<doc, errors, trigger, jobs, jobIdx, exc, result>>

Next ==
    \/ Load
    \/ CheckObject
    \/ CheckOn
    \/ CheckJobs
    \/ CallParseTrigger
    \/ CallParseJob
    \/ BuildReturn
    \/ Catch
    \/ ParseWorkflow

Spec == Init /\ [][Next]_vars

\* =============================================================== claims
Returned == pc \in {"returned", "done"}

MessageCount(errs, m) == Cardinality({a \in 1..Len(errs) : errs[a].message = m})

\* ------------------------------------------------------------------- C1
\* A valid minimal document: `on` a single event name, `jobs` a mapping of
\* one job with a runner and a `steps` sequence of at least one step, each
\* with `run` (event name, runner and command are non-empty strings).
ValidMinimal(d) ==
    /\ d.top.t = "object"
    /\ d.on.t = "string" /\ d.on.v # ""
    /\ d.jobs.t = "object" /\ Len(d.jobs.keys) = 1
    /\ LET c == d.jobs.cfgs[1]
       IN  /\ c.t = "object"
           /\ c.runsOn.t = "string" /\ c.runsOn.v # ""
           /\ c.steps.t = "array" /\ Len(c.steps.items) >= 1
           /\ \A a \in 1..Len(c.steps.items) :
                 /\ c.steps.items[a].t = "object"
                 /\ c.steps.items[a].run.t = "string"
                 /\ c.steps.items[a].run.v # ""

\* C1: for every valid minimal document, parse returns a non-null AST and
\* an empty list of diagnostics.
C1_ValidMinimalParsesClean ==
    (Returned /\ ValidMinimal(doc)) =>
        (~result.ast.isNull /\ result.errors = <<>>)

C1_Witness ==
    /\ pc = "returned" /\ ValidMinimal(doc)
    /\ Len(doc.jobs.cfgs[1].steps.items) >= 2
    /\ ~result.ast.isNull

\* ------------------------------------------------------------------- C2
ErrorSeverityMessages(errs) ==
    LET idx == SelectIdx([a \in 1..Len(errs) |-> errs[a].severity = "error"],
                         1, Len(errs))
    IN  [a \in 1..Len(idx) |-> errs[idx[a]].message]

\* C2: parseWorkflow ends in one of three ways, decided by what parse
\* returned: a null AST throws the parse failure with all the messages
\* joined by newlines; an AST with an `error` diagnostic throws the
\* validation failure with the `error` messages, in order; otherwise the
\* AST itself is returned.
C2_ParseWorkflowOutcomes ==
    pc = "done" =>
        /\ result.ast.isNull =>
              /\ outcome.thrown
              /\ outcome.message =
                    "Failed to parse workflow:\n" \o JoinLines(Messages(result.errors))
        /\ (~result.ast.isNull /\ ErrorSeverityMessages(result.errors) # <<>>) =>
              /\ outcome.thrown
              /\ outcome.message =
                    "Workflow has critical errors:\n"
                        \o JoinLines(ErrorSeverityMessages(result.errors))
        /\ (~result.ast.isNull /\ ErrorSeverityMessages(result.errors) = <<>>) =>
              /\ ~outcome.thrown
              /\ outcome.ast = result.ast

C2_Witness ==
    /\ pc = "done"
    /\ ~result.ast.isNull
    /\ Len(result.errors) >= 2
    /\ outcome.thrown
    /\ outcome.message =
          "Workflow has critical errors:\n" \o MsgMissingOn \o "\n" \o MsgMissingJobs

\* ------------------------------------------------------------------- C3
\* C3: when the decoded top-level value is not a mapping (a scalar, a
\* sequence or null), parse returns a null AST with exactly one `error`
\* diagnostic and validates nothing further.
C3_NonMappingRejected ==
    (Returned /\ doc.top.t \notin {"fail", "object"}) =>
        /\ result.ast.isNull
        /\ Len(result.errors) = 1
        /\ result.errors[1].severity = "error"
        /\ errors = <<>>
        /\ trigger = EmptyTrigger
        /\ jobs = EmptyObj

\* ------------------------------------------------------------------- C4
\* C4: for every input that decodes to a top-level mapping parse returns a
\* non-null AST; the AST is null only for a decode failure or a top-level
\* value that is not a mapping.
C4_MappingAlwaysYieldsAst ==
    (Returned /\ doc.top.t = "object") => ~result.ast.isNull

\* ------------------------------------------------------------------- C5
StepCount(c) == IF c.steps.t = "array" THEN Len(c.steps.items) ELSE 0

RECURSIVE JobsInOrder(_, _)
\* The diagnostics the jobs from entry k on can give, in the order stated.
JobsInOrder(d, k) ==
    IF k > Len(d.jobs.keys) THEN <<>>
    ELSE LET id == d.jobs.keys[k]
         IN  <<MsgRunsOn(id), MsgStepsArray(id)>>
                 \o [a \in 1..StepCount(d.jobs.cfgs[k]) |-> MsgStep(id, a - 1)]
                 \o JobsInOrder(d, k + 1)

\* Every structural diagnostic the document can give, in the order stated:
\* `on`, `jobs`, then job by job, `runs-on` first and the steps by index.
StatedOrder(d) == <<MsgMissingOn, MsgMissingJobs>> \o JobsInOrder(d, 1)

InStatedOrder(d, m) == \E a \in 1..Len(StatedOrder(d)) : StatedOrder(d)[a] = m

\* C5: the diagnostics parse returns are in detection order: `on` before
\* `jobs` before the jobs' diagnostics, job by job in iteration order,
\* within a job `runs-on` before the steps, the steps by increasing index.
C5_DiagnosticsInDetectionOrder ==
    Returned =>
        \A a, b \in 1..Len(result.errors) :
            (/\ a < b
             /\ InStatedOrder(doc, result.errors[a].message)
             /\ InStatedOrder(doc, result.errors[b].message)) =>
                IndexOf(StatedOrder(doc), result.errors[a].message)
                    < IndexOf(StatedOrder(doc), result.errors[b].message)

C5_Witness ==
    /\ Returned
    /\ Len(doc.jobs.keys) = 2
    /\ Len(result.errors) = 7
    /\ result.errors[1].message = MsgMissingOn
    /\ result.errors[4].message = MsgStep(doc.jobs.keys[1], 1)
    /\ result.errors[5].message = MsgRunsOn(doc.jobs.keys[2])

\* ------------------------------------------------------------------- C6
RECURSIVE IsSubseq(_, _)
\* a's elements all occur in b, in a's order.
IsSubseq(a, b) ==
    IF Len(a) = 0 THEN TRUE
    ELSE IF Len(b) = 0 THEN FALSE
    ELSE IF Head(a) = Head(b) THEN IsSubseq(Tail(a), Tail(b))
    ELSE IsSubseq(a, Tail(b))

\* C6: every diagnostic recorded during a call of parse is in the list the
\* call returns, in the order recorded.
C6_NoDiagnosticDropped ==
    Returned => IsSubseq(errors, result.errors)

\* ------------------------------------------------------------------- C7
HasOwnJob(ast, id) == \E a \in 1..Len(ast.jobs.keys) : ast.jobs.keys[a] = id
OwnJob(ast, id) == ast.jobs.vals[IndexOf(ast.jobs.keys, id)]

\* The documents on which nothing but a step can go wrong before the
\* steps are read: `on` an event name, `jobs` a mapping of mappings under
\* ordinary keys.
PlainJobs(d) ==
    /\ d.top.t = "object"
    /\ d.on.t = "string" /\ d.on.v # ""
    /\ d.jobs.t = "object"
    /\ \A k \in 1..Len(d.jobs.keys) :
          d.jobs.cfgs[k].t = "object" /\ d.jobs.keys[k] # "__proto__"

\* C7: for every element of a job's `steps` sequence: with `uses` and
\* `run` both absent, exactly one diagnostic naming the job and the step's
\* index is returned and the step is emitted with both undefined; with one
\* of them present no diagnostic is returned for the step.
C7_StepDiagnostics ==
    (Returned /\ PlainJobs(doc)) =>
        \A k \in 1..Len(doc.jobs.keys) :
            LET id == doc.jobs.keys[k]
                c == doc.jobs.cfgs[k]
            IN  \A a \in 1..StepCount(c) :
                    LET s == c.steps.items[a]
                    IN  IF s.uses.t = "undefined" /\ s.run.t = "undefined"
                        THEN /\ MessageCount(result.errors, MsgStep(id, a - 1)) = 1
                             /\ ~result.ast.isNull
                             /\ HasOwnJob(result.ast, id)
                             /\ Len(OwnJob(result.ast, id).steps) >= a
                             /\ OwnJob(result.ast, id).steps[a]
                                    = StepAST(Undefined, Undefined)
                        ELSE MessageCount(result.errors, MsgStep(id, a - 1)) = 0

\* ------------------------------------------------------------------- C8
\* C8: in every AST parse returns, the keys of the output `jobs` enumerate
\* as the keys of the source mapping do, one output job per source key,
\* and every job's step list has the length and the order of the source
\* `steps` sequence.
C8_OrderPreserved ==
    (Returned /\ ~result.ast.isNull /\ doc.jobs.t = "object") =>
        /\ result.ast.jobs.keys = doc.jobs.keys
        /\ \A k \in 1..Len(doc.jobs.keys) :
              LET c == doc.jobs.cfgs[k]
                  j == result.ast.jobs.vals[k]
              IN  /\ j.id = doc.jobs.keys[k]
                  /\ Len(j.steps) = StepCount(c)
                  /\ \A a \in 1..StepCount(c) :
                        j.steps[a] = StepAST(c.steps.items[a].uses,
                                             c.steps.items[a].run)

\* ------------------------------------------------------------------- C9
\* The events of a mapping-form `on` whose value is a mapping that gives
\* field f (a function of the configuration) a truthy value.
Givers(on, f(_)) ==
    {a \in 1..Len(on.cfgs) : on.cfgs[a].t = "object" /\ Truthy(f(on.cfgs[a]))}

MaxOf(S) == CHOOSE a \in S : \A b \in S : b <= a

\* The last giver's value of the field as a list, undefined with no giver.
LastGiven(on, f(_)) ==
    IF Givers(on, f) = {} THEN NoList
    ELSE SomeList(Coerce(f(on.cfgs[MaxOf(Givers(on, f))])))

BranchesOf(c) == c.branches
TagsOf(c) == c.tags
PathsOf(c) == c.paths

\* The events that carry a filter.
Carriers(on) == Givers(on, BranchesOf) \cup Givers(on, TagsOf) \cup Givers(on, PathsOf)

FieldOfEvent(c, f(_)) == IF Truthy(f(c)) THEN SomeList(Coerce(f(c))) ELSE NoList

\* C9 as stated: when several events carry filters, branches, tags and
\* paths of the Trigger all come from the last such event.
C9_OnlyLastEventsFilters ==
    (/\ Returned /\ ~result.ast.isNull /\ doc.on.t = "object"
     /\ Cardinality(Carriers(doc.on)) >= 2) =>
        LET c == doc.on.cfgs[MaxOf(Carriers(doc.on))]
        IN  /\ result.ast.on.branches = FieldOfEvent(c, BranchesOf)
            /\ result.ast.on.tags = FieldOfEvent(c, TagsOf)
            /\ result.ast.on.paths = FieldOfEvent(c, PathsOf)

\* C9 (amended): in every AST parse returns for a mapping-form `on`, each
\* of branches, tags and paths of the Trigger is, on its own, the value (as
\* a list) that the last event giving that field a truthy value gives it,
\* and undefined when no event does.
C9_LastGiverPerField ==
    (Returned /\ ~result.ast.isNull /\ doc.on.t = "object") =>
        /\ result.ast.on.events = doc.on.keys
        /\ result.ast.on.branches = LastGiven(doc.on, BranchesOf)
        /\ result.ast.on.tags = LastGiven(doc.on, TagsOf)
        /\ result.ast.on.paths = LastGiven(doc.on, PathsOf)

C9_Witness ==
    /\ Returned /\ ~result.ast.isNull /\ doc.on.t = "object"
    /\ Cardinality(Carriers(doc.on)) = 2
    /\ ~Truthy(doc.on.cfgs[2].branches)
    /\ Truthy(doc.on.cfgs[2].tags)
    /\ result.ast.on.branches = SomeList(Coerce(doc.on.cfgs[1].branches))
    /\ result.ast.on.tags = SomeList(Coerce(doc.on.cfgs[2].tags))

\* ------------------------------------------------------------------ C10
\* C10: when `on` is present with a number, null or a boolean, parse
\* returns an AST whose Trigger has no events, and no diagnostic is
\* recorded for that value.
C10_PermissiveOn ==
    (Returned /\ doc.top.t = "object" /\ doc.on.t \in {"number", "null", "boolean"}) =>
        /\ ~result.ast.isNull
        /\ result.ast.on.events = <<>>
        /\ MessageCount(errors, MsgMissingOn) = 0
        /\ MessageCount(result.errors, MsgMissingOn) = 0

\* ------------------------------------------------------------------ C11
\* The documents on which every job's steps are read and built: PlainJobs
\* with no null element in any `steps` sequence.
PlainSteps(d) ==
    /\ PlainJobs(d)
    /\ \A k \in 1..Len(d.jobs.keys) :
          \A a \in 1..StepCount(d.jobs.cfgs[k]) :
              ~Nullish(d.jobs.cfgs[k].steps.items[a])

\* C11: for every job, by the source value of `steps`: absent, an empty
\* step list and no diagnostic; a sequence, one output step per element in
\* order and no "'steps' must be an array" diagnostic; any other value
\* (mapping, string, number, boolean, empty string, null), exactly one
\* "'steps' must be an array" diagnostic and an empty step list.
C11_StepsThreeWay ==
    (Returned /\ PlainSteps(doc)) =>
        /\ ~result.ast.isNull
        /\ \A k \in 1..Len(doc.jobs.keys) :
              LET id == doc.jobs.keys[k]
                  c == doc.jobs.cfgs[k]
                  n == MessageCount(result.errors, MsgStepsArray(id))
              IN  /\ HasOwnJob(result.ast, id)
                  /\ Len(OwnJob(result.ast, id).steps) = StepCount(c)
                  /\ \A a \in 1..StepCount(c) :
                        OwnJob(result.ast, id).steps[a]
                            = StepAST(c.steps.items[a].uses, c.steps.items[a].run)
                  /\ IF c.steps.t \in {"undefined", "array"} THEN n = 0 ELSE n = 1

\* ------------------------------------------------------------------ C12
\* C12: when the top-level `jobs` is absent, null, a scalar or a sequence,
\* parse returns exactly one "Missing or invalid 'jobs' field" diagnostic
\* and an AST whose `jobs` is empty; when `jobs` is a mapping that
\* diagnostic is not returned.  Stated for the documents whose `on` is an
\* event name.
C12_JobsMissingOrInvalid ==
    (/\ Returned /\ doc.top.t = "object"
     /\ doc.on.t = "string" /\ doc.on.v # "") =>
        IF doc.jobs.t = "object"
        THEN MessageCount(result.errors, MsgMissingJobs) = 0
        ELSE /\ MessageCount(result.errors, MsgMissingJobs) = 1
             /\ ~result.ast.isNull
             /\ result.ast.jobs = EmptyObj

====
